---- MODULE Spec2Model ----
(***************************************************************************)
(* Model of docker_latest-local-to-id.py: a linear pipeline that           *)
(*   1. normalizes an image reference               (normalize_repo),      *)
(*   2. reads the local RepoDigests and .Id         (get_local_repo_...),  *)
(*   3. pages through the Docker Hub tag listing    (collect_hub_tags_...),*)
(*      each page fetched with retries              (fetch_json),          *)
(*   4. prints the result and exits                 (main).                *)
(*                                                                         *)
(* Python strings are TLA+ strings (TLC evaluates Len, \o and SubSeq on    *)
(* them), Python sets are sets, Python lists are sequences, and Python's   *)
(* None is the string None below.                                          *)
(*                                                                         *)
(* Three specifications:                                                   *)
(*   Spec        one run of main() against a nondeterministic runtime and  *)
(*               registry;                                                 *)
(*   SpecNorm    normalize_repo applied to a bounded set of references,    *)
(*               then applied again to its own result;                     *)
(*   SpecDigests the RepoDigests filter of                                 *)
(*               get_local_repo_digests_via_docker_inspect applied to      *)
(*               bounded lists of entries.                                 *)
(***************************************************************************)
EXTENDS Integers, Sequences, FiniteSets, TLC

VARIABLES
    pc,            \* position of the run of main()
    ref,           \* args.ref
    is_json,       \* args.json
    scan_all,      \* args.scan_all
    max_pages,     \* args.max_pages
    hub_repo,      \* main: hub_repo
    tag,           \* main: tag
    out_repo,      \* main: out_repo
    cp,            \* get_local_...: outcome of the RepoDigests inspection
    matched,       \* get_local_...: matched
    cp_id,         \* get_local_...: outcome of the .Id inspection
    repo_digests,  \* main: repo_digests (what get_local_... returned)
    local_id,      \* main: local_id
    url,           \* collect_hub_tags_for_digests: url
    hits,          \* collect_hub_tags_for_digests: hits
    visited,       \* collect_hub_tags_for_digests: visited
    page,          \* collect_hub_tags_for_digests: page
    att,           \* fetch_json: att
    last,          \* fetch_json: last
    tags,          \* main: tags (what collect_hub_tags_for_digests returned)
    raised,        \* the type of the exception propagating to main's handlers
    raisedInfo,    \* fetch_json's RuntimeError: the url it names, the cause it wraps
    exitCode,      \* the exit codes the process has ended with: none while it runs
    output,        \* what main printed on stdout: the payload (JSON mode) or the lines
    requested,     \* history: the urls fetch_json was called with, in order
    attempts,      \* history: the outcomes of the attempts of the current fetch_json call
    namesSeen,     \* history: the names of the records, on the pages received, that
                   \*          point to a target digest
    firstMatch,    \* history: the first such record, in page-then-record order
    stopCause,     \* history: why the pagination loop ended
    norm_pc,       \* SpecNorm: position
    norm_in,       \* SpecNorm: the reference
    norm_out,      \* SpecNorm: normalize_repo(norm_in)
    norm_again,    \* SpecNorm: normalize_repo(repo:tag of norm_out)
    dg_pc,         \* SpecDigests: position
    dg_repo,       \* SpecDigests: hub_repo
    dg_entries,    \* SpecDigests: the parsed RepoDigests list
    dg_out         \* SpecDigests: the matched set

mainVars == <<pc, ref, is_json, scan_all, max_pages, hub_repo, tag, out_repo,
              cp, matched, cp_id, repo_digests, local_id, url, hits,
              visited, page, att, last, tags, raised, raisedInfo, exitCode,
              output, requested, attempts, namesSeen, firstMatch, stopCause>>
normVars == <<norm_pc, norm_in, norm_out, norm_again>>
dgVars == <<dg_pc, dg_repo, dg_entries, dg_out>>
vars == <<mainVars, normVars, dgVars>>

\* Python's None.
None == "<None>"

(***************************************************************************)
(* Python string methods.                                                  *)
(***************************************************************************)

\* s.startswith(p)
StartsWith(s, p) == Len(s) >= Len(p) /\ SubSeq(s, 1, Len(p)) = p

\* s.endswith(p)
EndsWith(s, p) == Len(s) >= Len(p) /\ SubSeq(s, Len(s) - Len(p) + 1, Len(s)) = p

\* s[n:]
DropFirst(s, n) == SubSeq(s, n + 1, Len(s))

\* the positions at which p occurs in s
Occurrences(s, p) == {i \in 1..(Len(s) - Len(p) + 1) : SubSeq(s, i, i + Len(p) - 1) = p}

\* p in s
Contains(s, p) == Occurrences(s, p) # {}

\* the largest / smallest element of a non-empty set of integers
MaxOf(S) == CHOOSE i \in S : \A j \in S : j <= i
MinOf(S) == CHOOSE i \in S : \A j \in S : i <= j

\* s.rsplit(sep, 1) when sep occurs in s: split at the last occurrence
RSplit1(s, sep) ==
    LET i == MaxOf(Occurrences(s, sep))
    IN  <<SubSeq(s, 1, i - 1), DropFirst(s, i + Len(sep) - 1)>>

\* s.split(sep, 1) when sep occurs in s: split at the first occurrence
Split1(s, sep) ==
    LET i == MinOf(Occurrences(s, sep))
    IN  <<SubSeq(s, 1, i - 1), DropFirst(s, i + Len(sep) - 1)>>

(***************************************************************************)
(* normalize_repo, repo_for_output                                         *)
(***************************************************************************)

\* the registry host prefixes, in the order the loop of normalize_repo tries them
RegistryPrefixes == <<"docker.io/", "index.docker.io/", "registry-1.docker.io/">>

\* one iteration of the prefix loop: if ref.startswith(p): ref = ref[len(p):]
StripPrefix(r, p) == IF StartsWith(r, p) THEN DropFirst(r, Len(p)) ELSE r

\* the whole prefix loop: each prefix is tried once, in order, on the running ref
RECURSIVE StripPrefixesFrom(_, _)
StripPrefixesFrom(r, i) ==
    IF i > Len(RegistryPrefixes) THEN r
    ELSE StripPrefixesFrom(StripPrefix(r, RegistryPrefixes[i]), i + 1)

\* if "/" not in repo: repo = f"library/{repo}"
WithNamespace(repo) == IF Contains(repo, "/") THEN repo ELSE "library/" \o repo

normalize_repo(r) ==
    LET s == StripPrefixesFrom(r, 1)
        parts == IF Contains(s, ":") THEN RSplit1(s, ":") ELSE <<s, "latest">>
    IN  <<WithNamespace(parts[1]), parts[2]>>

repo_for_output(repo) == IF StartsWith(repo, "library/") THEN DropFirst(repo, 8) ELSE repo

(***************************************************************************)
(* get_local_repo_digests_via_docker_inspect: the RepoDigests filter       *)
(***************************************************************************)

\* the spellings of the repository accepted on the left of an entry
Variants(repo) ==
    LET short == repo_for_output(repo)
    IN  {short, "docker.io/" \o short, "index.docker.io/" \o short,
         "registry-1.docker.io/" \o short}

\* variant: the qualifier must be the spelling itself
LeftMatches_Equal(left, v) == left = v

\* any(left.endswith(v) for v in variants), for one v
LeftMatches(left, v) == EndsWith(left, v)

\* the body of the loop over the entries: the digest to add, as a set
EntryDigests(entry, variants) ==
    IF ~Contains(entry, "@sha256:") THEN {}
    ELSE LET parts == Split1(entry, "@")
         IN  IF \E v \in variants : LeftMatches(parts[1], v) THEN {parts[2]} ELSE {}

\* for entry in repo_digests or []: ... matched.add(digest)
RECURSIVE MatchedFrom(_, _, _, _)
MatchedFrom(entries, i, acc, variants) ==
    IF i > Len(entries) THEN acc
    ELSE MatchedFrom(entries, i + 1, acc \cup EntryDigests(entries[i], variants), variants)

FilterRepoDigests(entries, repo) == MatchedFrom(entries, 1, {}, Variants(repo))

(***************************************************************************)
(* Bounded inputs of the two pure-function specifications.                 *)
(***************************************************************************)

\* a reference is a concatenation of at most MaxRefPieces of these pieces
MaxRefPieces == 3
RefPieces == {"docker.io/", "index.docker.io/", "registry-1.docker.io/",
              "library/", "a", "b", "/", ":"}

RECURSIVE RefsUpTo(_)
RefsUpTo(n) ==
    IF n = 0 THEN {""}
    ELSE LET prev == RefsUpTo(n - 1)
         IN  prev \cup {s \o p : s \in prev, p \in RefPieces}

\* a RepoDigests list holds at most MaxEntries entries of EntryPool
MaxEntries == 2
EntryLefts == {"a/b", "docker.io/a/b", "index.docker.io/a/b",
               "registry-1.docker.io/a/b", "ghcr.io/a/b", "xa/b", "a/b/c", "c/d",
               "u", "docker.io/library/u"}
EntryDigestPool == {"sha256:1", "sha256:2"}
EntryPool ==
    {l \o "@" \o d : l \in EntryLefts, d \in EntryDigestPool}
        \cup {"a/b", "a/b@md5:3", "a/b@x@sha256:4"}

RECURSIVE ListsUpTo(_, _)
ListsUpTo(S, n) ==
    IF n = 0 THEN {<<>>}
    ELSE LET prev == ListsUpTo(S, n - 1)
         IN  prev \cup {Append(l, e) : l \in prev, e \in S}

DgRepos == {"a/b", "library/u"}

(***************************************************************************)
(* SpecNorm: normalize_repo, then normalize_repo of its own result.        *)
(***************************************************************************)

NormIdle == norm_pc = "idle" /\ norm_in = "" /\ norm_out = <<>> /\ norm_again = <<>>
DgIdle == dg_pc = "idle" /\ dg_repo = "" /\ dg_entries = <<>> /\ dg_out = {}

Normalize ==
    /\ norm_pc = "start"
    /\ norm_out' = normalize_repo(norm_in)
    /\ norm_pc' = "once"
    /\ UNCHANGED <<norm_in, norm_again, mainVars, dgVars>>

Renormalize ==
    /\ norm_pc = "once"
    /\ norm_again' = normalize_repo(norm_out[1] \o ":" \o norm_out[2])
    /\ norm_pc' = "twice"
    /\ UNCHANGED <<norm_in, norm_out, mainVars, dgVars>>

(***************************************************************************)
(* SpecDigests: the RepoDigests filter on a parsed list.                   *)
(***************************************************************************)

FilterEntries ==
    /\ dg_pc = "start"
    /\ dg_out' = FilterRepoDigests(dg_entries, dg_repo)
    /\ dg_pc' = "done"
    /\ UNCHANGED <<dg_repo, dg_entries, mainVars, normVars>>

(***************************************************************************)
(* The environment of one run of main(): arguments, container runtime,     *)
(* registry.                                                               *)
(***************************************************************************)

\* args.ref
MainRefs == {"u", "docker.io/a/b:1"}

\* args.max_pages ranges over -1..MaxPagesArg
MaxPagesArg == 2

\* what json.loads gives for the stdout of the RepoDigests inspection
RepoDigestsOutputs ==
    {<<>>,
     <<"a/b@sha256:1">>,
     <<"u@sha256:1", "docker.io/a/b@sha256:2">>,
     <<"c/d@sha256:1", "ghcr.io/x@sha256:2">>,
     <<"u@sha256:1", "u@sha256:2">>}

\* the stdout of the .Id inspection
IdOutputs == {"sha256:c"}

\* exceptions subprocess.run raises when the process cannot be started:
\* the binary is missing, or it is there and cannot be executed
RunExceptions == {"FileNotFoundError", "PermissionError"}

\* the tag records a page of the registry may hold: name, digest (None when
\* absent), images (the digests of the per-platform objects; empty when absent)
TagRecords ==
    {[name |-> "1.2.3",   digest |-> "sha256:1", images |-> <<>>],
     [name |-> "latest",  digest |-> None,       images |-> <<"sha256:9", "sha256:2">>],
     [name |-> "nightly", digest |-> "sha256:9", images |-> <<"sha256:9">>]}

\* a page holds at most MaxRecords records
MaxRecords == 2

\* the registry has one page url more than the largest page cap of the
\* model: the first page and the pages 2..NumPageUrls
NumPageUrls == MaxPagesArg + 1

(***************************************************************************)
(* fetch_json                                                              *)
(***************************************************************************)

\* the default of the parameter retries; collect_hub_tags_for_digests calls
\* fetch_json(url) with the defaults
retries == 5

\* variant: one attempt too many
MayAttempt_OneMore(a) == a <= retries + 1

\* while att <= retries
MayAttempt(a) == a <= retries

(***************************************************************************)
(* collect_hub_tags_for_digests                                            *)
(***************************************************************************)

\* urllib.parse.quote(repo, safe=""): of the characters of the model's
\* repository names only "/" is quoted
RECURSIVE Quote(_)
Quote(s) ==
    IF s = "" THEN ""
    ELSE LET c == SubSeq(s, 1, 1)
         IN  (IF c = "/" THEN "%2F" ELSE c) \o Quote(DropFirst(s, 1))

\* HUB_BASE.format(repo=...)
HubBase(repo) ==
    "https://hub.docker.com/v2/repositories/" \o Quote(repo) \o "/tags/?page_size=100"

\* the urls a response may name as "next": any page of the repository
PageUrls(repo) ==
    {HubBase(repo)} \cup {HubBase(repo) \o "&page=" \o ToString(n) : n \in 2..NumPageUrls}

\* variant: no cycle guard
AlreadyVisited_Never(u, vis) == FALSE

\* if url in visited
AlreadyVisited(u, vis) == u \in vis

\* variant: the cap compared one page late
OverCap_OffByOne(p, cap) == p > cap + 1

\* if page > max_pages (page already incremented)
OverCap(p, cap) == p > cap

\* for img in obj.get("images") or []: if d in target_digests: matched, break
RECURSIVE ImageMatchesFrom(_, _, _)
ImageMatchesFrom(images, i, target) ==
    IF i > Len(images) THEN FALSE
    ELSE LET d == IF images[i] = None THEN "" ELSE images[i]
         IN  IF d \in target THEN TRUE ELSE ImageMatchesFrom(images, i + 1, target)

\* variant: the per-platform digests are not looked at
RecordMatches_TopOnly(obj, target) ==
    (IF obj.digest = None THEN "" ELSE obj.digest) \in target

\* the value of matched after the body of the record loop, lines 214-225
RecordMatches(obj, target) ==
    LET dtop == IF obj.digest = None THEN "" ELSE obj.digest
    IN  IF dtop \in target THEN TRUE ELSE ImageMatchesFrom(obj.images, 1, target)

\* variant: no early return
ReturnsAtMatch_Never(all) == FALSE

\* if not scan_all: return hits
ReturnsAtMatch(all) == ~all

\* variant: a scan that stops at the end of the first page with a match,
\* not at the match
ScanFrom_PageLevel(res, i, acc, target, all) ==
    LET found == {res[k].name : k \in {k \in i..Len(res) : RecordMatches(res[k], target)}}
    IN  [hits |-> acc \cup found, returned |-> ~all /\ found # {}]

\* for obj in res: ... ; gives hits and whether the function returned inside the loop
RECURSIVE ScanFrom(_, _, _, _, _)
ScanFrom(res, i, acc, target, all) ==
    IF i > Len(res) THEN [hits |-> acc, returned |-> FALSE]
    ELSE IF RecordMatches(res[i], target)
         THEN IF ReturnsAtMatch(all)
              THEN [hits |-> acc \cup {res[i].name}, returned |-> TRUE]
              ELSE ScanFrom(res, i + 1, acc \cup {res[i].name}, target, all)
         ELSE ScanFrom(res, i + 1, acc, target, all)

(***************************************************************************)
(* main                                                                    *)
(***************************************************************************)

\* variant: the empty set is not detected
NoDigests_Never(d) == FALSE

\* if not repo_digests
NoDigests(d) == d = {}

\* msg, lines 276-280: the explanatory note of the no-mapping outcome
NoMappingMsg ==
    "Achtung: '.RepoDigests' ist leer. Häufige Gründe: Image lokal gebaut "
    \o "oder aus einer anderen Registry geladen. Die '.Id' (Config-Digest) ist "
    \o "i. d. R. nicht eindeutig einem Registry-Tag zuordenbar."

\* variant: the generic handler catches everything
ExitCodeFor_GenericOnly(exc) == 1

\* the except clauses of main, in order; subprocess.run is called without
\* check or timeout and raises no SubprocessError
ExitCodeFor(exc) ==
    CASE exc = "FileNotFoundError" -> 127
      [] exc = "SubprocessError" -> 1
      [] exc = "RuntimeError" -> 1
      [] OTHER -> 1

(***************************************************************************)
(* Spec: one run of main() with a reference argument.                      *)
(***************************************************************************)

\* nothing has run yet
MainBlank ==
    /\ hub_repo = None /\ tag = None /\ out_repo = None
    /\ cp = None /\ matched = {} /\ cp_id = None
    /\ repo_digests = {} /\ local_id = None
    /\ url = None /\ hits = {} /\ visited = {} /\ page = 0
    /\ att = 0 /\ last = None /\ tags = {}
    /\ raised = None /\ raisedInfo = [url |-> None, cause |-> None]
    /\ exitCode = {} /\ output = [mode |-> None]
    /\ requested = <<>> /\ attempts = <<>> /\ namesSeen = {} /\ firstMatch = [page |-> 0, name |-> None] /\ stopCause = None

MainIdle ==
    /\ pc = "idle" /\ ref = "" /\ is_json = FALSE /\ scan_all = FALSE /\ max_pages = 0
    /\ MainBlank

\* after parser.parse_args(): the arguments are any of the bounded inputs
Init ==
    /\ pc = "start"
    /\ ref \in MainRefs
    /\ is_json \in BOOLEAN
    /\ scan_all \in BOOLEAN
    /\ max_pages \in -1..MaxPagesArg
    /\ MainBlank
    /\ NormIdle /\ DgIdle

getLocalVars == <<cp, matched, cp_id, repo_digests, local_id>>
collectVars == <<url, hits, visited, page, att, last, tags, requested, attempts,
                 namesSeen, firstMatch, stopCause>>
argVars == <<ref, is_json, scan_all, max_pages>>
endVars == <<raised, raisedInfo, exitCode, output>>

\* lines 267-268: hub_repo, tag = normalize_repo(args.ref); out_repo = ...
NormalizeRef ==
    /\ pc = "start"
    /\ hub_repo' = normalize_repo(ref)[1]
    /\ tag' = normalize_repo(ref)[2]
    /\ out_repo' = repo_for_output(normalize_repo(ref)[1])
    /\ pc' = "inspect_digests"
    /\ UNCHANGED <<argVars, getLocalVars, collectVars, endVars, normVars, dgVars>>

\* line 140: subprocess.run cannot start docker and raises
InspectDigestsNotStarted ==
    /\ pc = "inspect_digests"
    /\ \E exc \in RunExceptions :
          /\ cp' = exc
          /\ raised' = exc
    /\ pc' = "except"
    /\ UNCHANGED <<argVars, hub_repo, tag, out_repo, matched, cp_id, repo_digests,
                   local_id, collectVars, raisedInfo, exitCode, output, normVars, dgVars>>

\* lines 141-142: docker ran and exited non-zero
InspectDigestsNonZero ==
    /\ pc = "inspect_digests"
    /\ cp' = "nonzero"
    /\ raised' = "RuntimeError"
    /\ pc' = "except"
    /\ UNCHANGED <<argVars, hub_repo, tag, out_repo, matched, cp_id, repo_digests,
                   local_id, collectVars, raisedInfo, exitCode, output, normVars, dgVars>>

\* lines 144-147: exit status 0, stdout is not JSON
InspectDigestsUnparseable ==
    /\ pc = "inspect_digests"
    /\ cp' = "unparseable"
    /\ raised' = "RuntimeError"
    /\ pc' = "except"
    /\ UNCHANGED <<argVars, hub_repo, tag, out_repo, matched, cp_id, repo_digests,
                   local_id, collectVars, raisedInfo, exitCode, output, normVars, dgVars>>

\* lines 161-163: exit status 0, stdout is JSON and not a list of strings
\* (a number, a list of numbers): iterating it or testing "in" raises TypeError
InspectDigestsBadType ==
    /\ pc = "inspect_digests"
    /\ cp' = "badtype"
    /\ raised' = "TypeError"
    /\ pc' = "except"
    /\ UNCHANGED <<argVars, hub_repo, tag, out_repo, matched, cp_id, repo_digests,
                   local_id, collectVars, raisedInfo, exitCode, output, normVars, dgVars>>

\* lines 140-167: exit status 0, stdout is a JSON list of strings
InspectDigestsOk ==
    /\ pc = "inspect_digests"
    /\ \E entries \in RepoDigestsOutputs :
          matched' = FilterRepoDigests(entries, hub_repo)
    /\ cp' = "ok"
    /\ pc' = "inspect_id"
    /\ UNCHANGED <<argVars, hub_repo, tag, out_repo, cp_id, repo_digests,
                   local_id, collectVars, endVars, normVars, dgVars>>

\* line 170: subprocess.run cannot start docker and raises
InspectIdNotStarted ==
    /\ pc = "inspect_id"
    /\ \E exc \in RunExceptions :
          /\ cp_id' = exc
          /\ raised' = exc
    /\ pc' = "except"
    /\ UNCHANGED <<argVars, hub_repo, tag, out_repo, cp, matched, repo_digests,
                   local_id, collectVars, raisedInfo, exitCode, output, normVars, dgVars>>

\* lines 170-175 and 272: docker exited non-zero, local_id is None; return
InspectIdNonZero ==
    /\ pc = "inspect_id"
    /\ cp_id' = "nonzero"
    /\ local_id' = None
    /\ repo_digests' = matched
    /\ pc' = "check"
    /\ UNCHANGED <<argVars, hub_repo, tag, out_repo, cp, matched, collectVars,
                   endVars, normVars, dgVars>>

\* lines 170-175 and 272: docker printed the id; return
InspectIdOk ==
    /\ pc = "inspect_id"
    /\ cp_id' = "ok"
    /\ \E id \in IdOutputs : local_id' = id
    /\ repo_digests' = matched
    /\ pc' = "check"
    /\ UNCHANGED <<argVars, hub_repo, tag, out_repo, cp, matched, collectVars,
                   endVars, normVars, dgVars>>

\* lines 274-298: no digest survived the filter; print the note, sys.exit(0)
NoMapping ==
    /\ pc = "check"
    /\ NoDigests(repo_digests)
    /\ output' = IF is_json
                 THEN [mode |-> "json", input |-> ref, repository |-> out_repo,
                       local_repo_digests |-> <<>>, local_id |-> local_id,
                       mapping_possible |-> FALSE, note |-> NoMappingMsg]
                 ELSE [mode |-> "human",
                       lines |-> <<"Image: " \o ref, "Repository: " \o out_repo>>
                                 \o (IF local_id # None /\ local_id # ""
                                     THEN <<"Lokale .Id: " \o local_id>> ELSE <<>>)
                                 \o <<NoMappingMsg>>]
    /\ exitCode' = {0}
    /\ pc' = "exit"
    /\ UNCHANGED <<argVars, hub_repo, tag, out_repo, getLocalVars, collectVars,
                   raised, raisedInfo, normVars, dgVars>>

\* lines 303-308 and 193-197: call collect_hub_tags_for_digests
StartCollect ==
    /\ pc = "check"
    /\ ~NoDigests(repo_digests)
    /\ url' = HubBase(hub_repo)
    /\ hits' = {}
    /\ visited' = {}
    /\ page' = 0
    /\ pc' = "loop"
    /\ UNCHANGED <<argVars, hub_repo, tag, out_repo, getLocalVars, att, last, tags,
                   requested, attempts, namesSeen, firstMatch, stopCause, endVars,
                   normVars, dgVars>>

\* lines 199-202 and 240: the url was visited before; break, return hits
LoopCycle ==
    /\ pc = "loop"
    /\ AlreadyVisited(url, visited)
    /\ stopCause' = "cycle"
    /\ tags' = hits
    /\ pc' = "collected"
    /\ UNCHANGED <<argVars, hub_repo, tag, out_repo, getLocalVars, url, hits, visited,
                   page, att, last, requested, attempts, namesSeen, firstMatch, endVars,
                   normVars, dgVars>>

\* lines 203-207 and 240: one page too many; break, return hits
LoopCap ==
    /\ pc = "loop"
    /\ ~AlreadyVisited(url, visited)
    /\ OverCap(page + 1, max_pages)
    /\ visited' = visited \cup {url}
    /\ page' = page + 1
    /\ stopCause' = "cap"
    /\ tags' = hits
    /\ pc' = "collected"
    /\ UNCHANGED <<argVars, hub_repo, tag, out_repo, getLocalVars, url, hits,
                   att, last, requested, attempts, namesSeen, firstMatch, endVars,
                   normVars, dgVars>>

\* lines 203-209 and 101-102: call fetch_json(url)
LoopFetch ==
    /\ pc = "loop"
    /\ ~AlreadyVisited(url, visited)
    /\ ~OverCap(page + 1, max_pages)
    /\ visited' = visited \cup {url}
    /\ page' = page + 1
    /\ requested' = Append(requested, url)
    /\ att' = 0
    /\ last' = None
    /\ attempts' = <<>>
    /\ pc' = "fetch"
    /\ UNCHANGED <<argVars, hub_repo, tag, out_repo, getLocalVars, url, hits, tags,
                   namesSeen, firstMatch, stopCause, endVars, normVars, dgVars>>

\* lines 103-114: an attempt fails; remember the exception, sleep, loop
\* (the sleep of min(backoff**att, 8) seconds changes no state)
FetchAttemptFails ==
    /\ pc = "fetch"
    /\ MayAttempt(att)
    /\ att' = att + 1
    /\ last' = "URLError"
    /\ attempts' = Append(attempts, "fail")
    /\ UNCHANGED <<pc, argVars, hub_repo, tag, out_repo, getLocalVars, url, hits,
                   visited, page, tags, requested, namesSeen, firstMatch, stopCause,
                   endVars,
                   normVars, dgVars>>

\* lines 103-111: an attempt succeeds; fetch_json returns the parsed body
FetchAttemptOk ==
    /\ pc = "fetch"
    /\ MayAttempt(att)
    /\ att' = att + 1
    /\ attempts' = Append(attempts, "ok")
    /\ pc' = "page"
    /\ UNCHANGED <<argVars, hub_repo, tag, out_repo, getLocalVars, url, hits,
                   visited, page, last, tags, requested, namesSeen, firstMatch,
                   stopCause, endVars,
                   normVars, dgVars>>

\* lines 103 and 115: no attempt is left; raise RuntimeError(url, last) from last
FetchGiveUp ==
    /\ pc = "fetch"
    /\ ~MayAttempt(att)
    /\ raised' = "RuntimeError"
    /\ raisedInfo' = [url |-> url, cause |-> last]
    /\ pc' = "except"
    /\ UNCHANGED <<argVars, hub_repo, tag, out_repo, getLocalVars, collectVars,
                   exitCode, output, normVars, dgVars>>

\* the records of a page that point to a target digest, by the registry's
\* data alone: the top-level digest or one of the per-platform digests
PointsToTarget(r, target) ==
    \/ r.digest \in target
    \/ \E i \in 1..Len(r.images) : r.images[i] \in target

\* the names of those records, in the order of the page
MatchingNames(res, target) ==
    LET sel == SelectSeq(res, LAMBDA r : PointsToTarget(r, target))
    IN  [i \in 1..Len(sel) |-> sel[i].name]

\* the pages the registry may answer with, and the "next" of a response
Pages == ListsUpTo(TagRecords, MaxRecords)
NextPointers == PageUrls(hub_repo) \cup {None}

\* lines 209-240: fetch_json has returned a page; scan its records, then
\* return at a match (scan_all off), or break when the page names no next
\* page, or go on with the next url.  The locals att and last of fetch_json
\* are gone by then, and the model clears them and the attempt history.
ProcessPage ==
    /\ pc = "page"
    /\ \E res \in Pages, nxt \in NextPointers :
          LET scan == ScanFrom(res, 1, hits, repo_digests, scan_all)
              names == MatchingNames(res, repo_digests)
          IN  /\ hits' = scan.hits
              /\ namesSeen' = namesSeen \cup {names[i] : i \in 1..Len(names)}
              /\ firstMatch' = IF firstMatch.page = 0 /\ names # <<>>
                               THEN [page |-> Len(requested), name |-> names[1]]
                               ELSE firstMatch
              /\ IF scan.returned
                 THEN /\ stopCause' = "first_match"
                      /\ tags' = scan.hits
                      /\ pc' = "collected"
                      /\ url' = url
                 ELSE IF nxt = None
                 THEN /\ stopCause' = "end"
                      /\ tags' = scan.hits
                      /\ pc' = "collected"
                      /\ url' = url
                 ELSE /\ url' = nxt
                      /\ pc' = "loop"
                      /\ UNCHANGED <<stopCause, tags>>
    /\ att' = 0 /\ last' = None /\ attempts' = <<>>
    /\ UNCHANGED <<argVars, hub_repo, tag, out_repo, getLocalVars, visited, page,
                   requested, endVars, normVars, dgVars>>

(***************************************************************************)
(* split_latest_versions and the report of main                            *)
(***************************************************************************)

\* the characters of tag names and digests in code-point order: Python
\* compares strings by code point
AsciiChars ==
    "-.0123456789:ABCDEFGHIJKLMNOPQRSTUVWXYZ_abcdefghijklmnopqrstuvwxyz"
Ord(c) == CHOOSE i \in 1..Len(AsciiChars) : SubSeq(AsciiChars, i, i) = c

\* a < b on str
RECURSIVE StrLess(_, _)
StrLess(a, b) ==
    IF b = "" THEN FALSE
    ELSE IF a = "" THEN TRUE
    ELSE LET ca == SubSeq(a, 1, 1)
             cb == SubSeq(b, 1, 1)
         IN  IF ca = cb THEN StrLess(DropFirst(a, 1), DropFirst(b, 1))
             ELSE Ord(ca) < Ord(cb)

\* sorted(S) for a set of strings
RECURSIVE Sorted(_)
Sorted(S) ==
    IF S = {} THEN <<>>
    ELSE LET m == CHOOSE x \in S : \A y \in S \ {x} : StrLess(x, y)
         IN  <<m>> \o Sorted(S \ {m})

\* s[i-1] with 1-based i, "" outside the string
CharAt(s, i) == IF i >= 1 /\ i <= Len(s) THEN SubSeq(s, i, i) ELSE ""

\* \d on the ASCII digits
IsDigit(c) == c \in {"0", "1", "2", "3", "4", "5", "6", "7", "8", "9"}

\* the position after the digits that start at position i (\d+ is greedy,
\* and what follows it in SEMVER_RX is never a digit)
RECURSIVE DigitsEnd(_, _)
DigitsEnd(s, i) == IF IsDigit(CharAt(s, i)) THEN DigitsEnd(s, i + 1) ELSE i

\* SEMVER_RX.match(t): ^v?\d+\.\d+\.\d+(?:[.-].+)?$ on a name without newline
SemverMatch(t) ==
    LET s1 == IF CharAt(t, 1) = "v" THEN 2 ELSE 1
        e1 == DigitsEnd(t, s1)
        e2 == DigitsEnd(t, e1 + 1)
        e3 == DigitsEnd(t, e2 + 1)
    IN  /\ e1 > s1
        /\ CharAt(t, e1) = "."
        /\ e2 > e1 + 1
        /\ CharAt(t, e2) = "."
        /\ e3 > e2 + 1
        /\ \/ e3 = Len(t) + 1
           \/ CharAt(t, e3) \in {".", "-"} /\ Len(t) >= e3 + 1

\* split_latest_versions(tags): latest, versions, others
split_latest_versions(ts) ==
    [latest   |-> IF "latest" \in ts THEN <<"latest">> ELSE <<>>,
     versions |-> Sorted({t \in ts : t # "latest" /\ SemverMatch(t)}),
     others   |-> Sorted({t \in ts : t # "latest" /\ ~SemverMatch(t)})]

\* line 345: preferred
Preferred(b) ==
    IF b.versions # <<>> THEN b.versions[Len(b.versions)]
    ELSE IF b.latest # <<>> THEN b.latest[1]
    ELSE IF b.others # <<>> THEN b.others[1]
    ELSE None

\* the lines "  - {out_repo}:{t}" for the tags of one bucket
TagLines(repo, l) == [i \in 1..Len(l) |-> "  - " \o repo \o ":" \o l[i]]

\* lines 312-327: the payload printed as JSON
JsonReport(b) ==
    [mode |-> "json", input |-> ref, repository |-> out_repo,
     local_repo_digests |-> Sorted(repo_digests), local_id |-> local_id,
     tags |-> b, all_tags_sorted |-> Sorted(tags),
     scan_all |-> scan_all, max_pages |-> max_pages]

\* lines 331-347: the lines printed for a human reader
HumanReport(b) ==
    [mode |-> "human",
     lines |-> <<"Image: " \o ref, "Repository: " \o out_repo, "Lokale RepoDigest(s):">>
               \o [i \in 1..Cardinality(repo_digests) |-> "  - " \o Sorted(repo_digests)[i]]
               \o <<"Zugeordnete Tags auf Docker Hub:">>
               \o TagLines(out_repo, b.versions)
               \o TagLines(out_repo, b.latest)
               \o TagLines(out_repo, b.others)
               \o (IF Preferred(b) # None /\ Preferred(b) # ""
                   THEN <<"", "=> Wahrscheinlich verwendete Version/ID: " \o Preferred(b)>>
                   ELSE <<>>)]

\* lines 310-347: classify and print the tags found; main returns, the
\* process exits with 0.  output is the payload in JSON mode and the lines
\* of stdout in human mode.
Report ==
    /\ pc = "collected"
    /\ output' = IF is_json THEN JsonReport(split_latest_versions(tags))
                 ELSE HumanReport(split_latest_versions(tags))
    /\ exitCode' = {0}
    /\ pc' = "exit"
    /\ UNCHANGED <<argVars, hub_repo, tag, out_repo, getLocalVars, collectVars,
                   raised, raisedInfo, normVars, dgVars>>

\* lines 349-371: the except clause that catches the exception exits
HandleException ==
    /\ pc = "except"
    /\ exitCode' = {ExitCodeFor(raised)}
    /\ pc' = "exit"
    /\ UNCHANGED <<argVars, hub_repo, tag, out_repo, getLocalVars, collectVars,
                   raised, raisedInfo, output, normVars, dgVars>>

Next ==
    \/ NormalizeRef
    \/ InspectDigestsNotStarted
    \/ InspectDigestsNonZero
    \/ InspectDigestsUnparseable
    \/ InspectDigestsBadType
    \/ InspectDigestsOk
    \/ InspectIdNotStarted
    \/ InspectIdNonZero
    \/ InspectIdOk
    \/ NoMapping
    \/ StartCollect
    \/ LoopCycle
    \/ LoopCap
    \/ LoopFetch
    \/ FetchAttemptFails
    \/ FetchAttemptOk
    \/ FetchGiveUp
    \/ ProcessPage
    \/ Report
    \/ HandleException

Spec == Init /\ [][Next]_vars

InitNorm ==
    /\ norm_pc = "start"
    /\ norm_in \in RefsUpTo(MaxRefPieces)
    /\ norm_out = <<>>
    /\ norm_again = <<>>
    /\ MainIdle /\ DgIdle

NextNorm == Normalize \/ Renormalize

SpecNorm == InitNorm /\ [][NextNorm]_vars

InitDigests ==
    /\ dg_pc = "start"
    /\ dg_repo \in DgRepos
    /\ dg_entries \in ListsUpTo(EntryPool, MaxEntries)
    /\ dg_out = {}
    /\ MainIdle /\ NormIdle

NextDigests == FilterEntries

SpecDigests == InitDigests /\ [][NextDigests]_vars

TypeOK ==
    /\ pc \in {"idle", "start", "inspect_digests", "inspect_id", "check", "loop",
               "fetch", "page", "collected", "except", "exit"}
    /\ exitCode \subseteq {0, 1, 127}
    /\ att \in 0..(retries + 1)
    /\ page \in 0..(MaxPagesArg + 1)

(***************************************************************************)
(* Claims about the pagination loop (under Spec).                          *)
(***************************************************************************)

\* collect_hub_tags_for_digests has returned
Collected == pc \in {"collected", "exit"} /\ stopCause # None

\* C1: fetch_json is never called twice with the same page url in one run,
\* and when a "next" pointer names a visited url the loop stops there:
\* the function returns the names accumulated from the pages received, no
\* exception is raised and the run ends with exit code 0.
C1_NoPageFetchedTwice ==
    /\ \A i, j \in 1..Len(requested) : i # j => requested[i] # requested[j]
    /\ stopCause = "cycle" =>
          /\ Collected
          /\ tags = namesSeen
          /\ tags = hits
          /\ url \in visited
          /\ raised = None
          /\ pc = "exit" => exitCode = {0}

\* C1 witness: a response named a visited url after matching tags had been found
C1_Witness ==
    /\ pc = "exit"
    /\ stopCause = "cycle"
    /\ Len(requested) >= 2
    /\ tags # {}

\* C2: with scan_all off, the first page received that holds a record
\* pointing to a target digest is the last page fetched: the function
\* returns at it and fetch_json is not called again.
C2_StopsAtFirstMatchingPage ==
    (~scan_all /\ firstMatch.page # 0) =>
        /\ Len(requested) = firstMatch.page
        /\ Collected
        /\ stopCause = "first_match"

\* C2 witness: the second page held the first match, and the run ended there
C2_Witness ==
    /\ pc = "exit"
    /\ ~scan_all
    /\ firstMatch.page = 2
    /\ Len(requested) = 2

\* C3: with scan_all on, when the chain of pages ends (the last page names
\* no next page; no url repeated, the cap not exceeded, every fetch
\* succeeded), the function returns exactly the names of the records, on
\* any page of the chain, whose top-level digest or one of whose
\* per-platform digests is a target digest.
C3_ExhaustiveFindsAll ==
    (scan_all /\ stopCause = "end") => (Collected /\ tags = namesSeen)

\* C3 witness: a chain of two pages or more with a top-level match and a
\* per-platform match
C3_Witness ==
    /\ pc = "exit"
    /\ scan_all
    /\ stopCause = "end"
    /\ Len(requested) >= 2
    /\ tags = {"1.2.3", "latest"}

\* the page fetches the cap allows
FetchesAllowed == IF max_pages > 0 THEN max_pages ELSE 0

\* C4: fetch_json is called at most max_pages times (never when
\* max_pages <= 0), and when the cap stops the loop the function returns
\* the names accumulated from the pages received, no exception is raised
\* and the run ends with exit code 0.
C4_PageCap ==
    /\ Len(requested) <= FetchesAllowed
    /\ stopCause = "cap" =>
          /\ Collected
          /\ Len(requested) = FetchesAllowed
          /\ tags = namesSeen
          /\ tags = hits
          /\ raised = None
          /\ pc = "exit" => exitCode = {0}

\* C4 witness: the cap stopped a chain that had already given matching tags
C4_Witness ==
    /\ pc = "exit"
    /\ stopCause = "cap"
    /\ max_pages >= 2
    /\ tags # {}

\* fetch_json raised its RuntimeError
FetchRaised == raisedInfo.url # None

\* C5: one call of fetch_json makes at most retries + 1 attempts; a
\* successful attempt is the last one and fetch_json returns at it; and
\* fetch_json raises its RuntimeError, which names the url and wraps the
\* last exception, exactly when retries + 1 attempts were made and all failed.
C5_FetchRetries ==
    /\ Len(attempts) <= retries + 1
    /\ att = Len(attempts)
    /\ \A i \in 1..Len(attempts) :
          attempts[i] = "ok" => (i = Len(attempts) /\ pc = "page")
    /\ pc = "page" => (attempts # <<>> /\ attempts[Len(attempts)] = "ok")
    /\ FetchRaised =>
          /\ Len(attempts) = retries + 1
          /\ \A i \in 1..Len(attempts) : attempts[i] = "fail"
          /\ raised = "RuntimeError"
          /\ raisedInfo = [url |-> requested[Len(requested)], cause |-> "URLError"]
    /\ (Len(attempts) = retries + 1 /\ attempts[retries + 1] = "fail" /\ pc # "fetch")
          => FetchRaised

\* C5 witness: every attempt failed and the RuntimeError reached main
C5_Witness ==
    /\ pc = "exit"
    /\ FetchRaised
    /\ Len(attempts) = retries + 1

\* C10: with scan_all off, the function returns at the first matching
\* record in page-then-record order: the result holds at most one name, the
\* name of that record, also when later records of the same page point to a
\* target digest; it is empty when no record received matched.
C10_FirstMatchOnly ==
    ~scan_all =>
        /\ Cardinality(hits) <= 1
        /\ Collected =>
              tags = IF firstMatch.page = 0 THEN {} ELSE {firstMatch.name}

\* C10 witness: two records of the page matched and one name was returned
C10_Witness ==
    /\ pc = "exit"
    /\ ~scan_all
    /\ stopCause = "first_match"
    /\ Cardinality(namesSeen) >= 2
    /\ Cardinality(tags) = 1

(***************************************************************************)
(* Claims about main (under Spec).                                         *)
(***************************************************************************)

\* get_local_repo_digests_via_docker_inspect has returned to main
LocalReturned == cp_id \in {"ok", "nonzero"}

\* the no-mapping outcome was printed, in the mode asked for
NoMappingPrinted ==
    IF is_json
    THEN /\ output.mode = "json"
         /\ DOMAIN output = {"mode", "input", "repository", "local_repo_digests",
                             "local_id", "mapping_possible", "note"}
         /\ output.mapping_possible = FALSE
         /\ output.note = NoMappingMsg
         /\ output.local_repo_digests = <<>>
    ELSE /\ output.mode = "human"
         /\ DOMAIN output = {"mode", "lines"}
         /\ output.lines[Len(output.lines)] = NoMappingMsg

\* C6: when the digest set that survives the repository filter is empty,
\* the run ends in the no-mapping outcome (mapping_possible false, the
\* note) with exit code 0, in the human and in the JSON mode, and the
\* registry is not queried: collect_hub_tags_for_digests is entered with
\* a non-empty target set only.
C6_EmptyDigestsNoMapping ==
    /\ (pc \in {"loop", "fetch", "page", "collected"} \/ requested # <<>>)
          => repo_digests # {}
    /\ (LocalReturned /\ repo_digests = {}) =>
          /\ pc \in {"check", "exit"}
          /\ requested = <<>>
          /\ raised = None
          /\ pc = "exit" => (exitCode = {0} /\ NoMappingPrinted)

\* C6 witness: a JSON run whose local image has digests of other repositories only
C6_Witness ==
    /\ pc = "exit"
    /\ LocalReturned
    /\ repo_digests = {}
    /\ is_json
    /\ output.mode = "json"

\* the container runtime binary is missing
RuntimeMissing == cp = "FileNotFoundError" \/ cp_id = "FileNotFoundError"

\* the failures that end a run with exit code 1: the RepoDigests inspection
\* exits non-zero or prints no JSON, a registry fetch exhausts its retries,
\* or anything unexpected (docker cannot be executed, the JSON is no list of
\* strings)
FailsWithOne ==
    \/ cp \in {"nonzero", "unparseable", "badtype", "PermissionError"}
    \/ cp_id = "PermissionError"
    \/ FetchRaised

\* C7 as stated: a non-zero exit of either inspection call is a failure
\* that ends the run with exit code 1, and exit code 0 means that no
\* runtime invocation failed.
C7_AnyInspectionFailureExitsOne ==
    pc = "exit" =>
        /\ Cardinality(exitCode) = 1
        /\ exitCode = {127} <=> RuntimeMissing
        /\ (FailsWithOne \/ cp_id = "nonzero") /\ ~RuntimeMissing => exitCode = {1}
        /\ exitCode = {0} => ~(RuntimeMissing \/ FailsWithOne \/ cp_id = "nonzero")

\* C7 amended: every run ends with one exit code: 127 exactly when the
\* runtime binary is missing; 1 exactly when the RepoDigests inspection
\* exits non-zero or gives unparseable output, a registry fetch exhausts
\* its retries or something unexpected fails; 0 otherwise, with a result
\* printed.  A non-zero exit of the .Id inspection is no failure: local_id
\* is None and the run goes on.
C7_ExitCodes ==
    /\ pc # "exit" => exitCode = {}
    /\ pc = "exit" =>
          /\ Cardinality(exitCode) = 1
          /\ exitCode = {127} <=> RuntimeMissing
          /\ exitCode = {1} <=> FailsWithOne
          /\ exitCode = {0} <=> (~RuntimeMissing /\ ~FailsWithOne)
          /\ exitCode = {0} <=> output.mode # None
          /\ exitCode = {0} <=> raised = None

\* C7 witness: the .Id inspection exited non-zero and the run ended with 0
C7_Witness ==
    /\ pc = "exit"
    /\ cp_id = "nonzero"
    /\ local_id = None
    /\ exitCode = {0}
    /\ tags # {}

(***************************************************************************)
(* Claim about normalize_repo (under SpecNorm).                            *)
(***************************************************************************)

\* C8: normalization is idempotent: normalizing repo:tag of the result of
\* normalize_repo gives the same (repo, tag).
C8_NormalizeIdempotent ==
    norm_pc = "twice" => norm_again = norm_out

(***************************************************************************)
(* Claims about the RepoDigests filter (under SpecDigests).                *)
(***************************************************************************)

\* the parts of a well-formed entry, left@digest
EntryLeft(e) == SubSeq(e, 1, MinOf(Occurrences(e, "@")) - 1)
EntryDigest(e) == SubSeq(e, MinOf(Occurrences(e, "@")) + 1, Len(e))
EntriesOf(l) == {l[i] : i \in 1..Len(l)}
WithSha256(l) == {e \in EntriesOf(l) : Contains(e, "@sha256:")}

\* C9 as stated: the result is exactly the digests of the entries whose
\* repository qualifier is one of the accepted spellings.
C9_ExactSpellingOnly ==
    dg_pc = "done" =>
        dg_out = {EntryDigest(e) : e \in {x \in WithSha256(dg_entries) :
                                             EntryLeft(x) \in Variants(dg_repo)}}

\* C9 amended: the result is exactly the digests (the text after the first
\* "@") of the entries that contain "@sha256:" and whose repository
\* qualifier (the text before the first "@") ends with one of the accepted
\* spellings; an entry of another repository whose name ends with such a
\* spelling is included.
C9_SuffixSpelling ==
    dg_pc = "done" =>
        dg_out = {EntryDigest(e) : e \in {x \in WithSha256(dg_entries) :
                     \E v \in Variants(dg_repo) :
                        /\ Len(EntryLeft(x)) >= Len(v)
                        /\ DropFirst(EntryLeft(x), Len(EntryLeft(x)) - Len(v)) = v}}

\* C9 witness: the only entry is of another repository whose name ends with
\* the short name, and its digest is returned
C9_Witness ==
    /\ dg_pc = "done"
    /\ dg_repo = "a/b"
    /\ dg_entries = <<"ghcr.io/a/b@sha256:1">>
    /\ dg_out = {"sha256:1"}

====
